---- MODULE Spec2Model ----
(***************************************************************************)
(* cortex-handlebars-compiler: the directive resolver of src/index.js.     *)
(*                                                                         *)
(* Strings are TLA+ strings; a character is a string of length 1.  The     *)
(* path functions are those of node's `path` module on a POSIX host.       *)
(* JavaScript's undefined / null / '' (all falsy, and the code only tests  *)
(* truthiness) are the empty string or the empty sequence.                 *)
(***************************************************************************)
EXTENDS Integers, Sequences, FiniteSets, TLC

(***************************************************************************)
(* String primitives (String.prototype)                                    *)
(***************************************************************************)
CharAt(s, i) == SubSeq(s, i, i)

Drop(s, n) == SubSeq(s, n + 1, Len(s))

Take(s, n) == SubSeq(s, 1, n)

\* s.indexOf(t) === 0
StartsWith(s, t) == Len(t) <= Len(s) /\ Take(s, Len(t)) = t

EndsWith(s, t) == Len(t) <= Len(s) /\ Drop(s, Len(s) - Len(t)) = t

\* the positions at which t occurs in s
Occurrences(s, t) == {i \in 1..(Len(s) - Len(t) + 1) : SubSeq(s, i, i + Len(t) - 1) = t}

\* the first and the last of a set of positions, 0 for none
FirstOf(hits) == IF hits = {} THEN 0 ELSE CHOOSE i \in hits : \A j \in hits : i <= j

LastOf(hits) == IF hits = {} THEN 0 ELSE CHOOSE i \in hits : \A j \in hits : i >= j

\* s.indexOf(t), 1-based; 0 when t does not occur (JavaScript's -1)
IndexOf(s, t) == FirstOf(Occurrences(s, t))

\* s.lastIndexOf(t), 1-based; 0 when t does not occur
LastIndexOf(s, t) == LastOf(Occurrences(s, t))

RECURSIVE Split(_, _)
\* s.split(sep) for a non-empty separator
Split(s, sep) ==
    LET SplitAt(i) ==
            IF i = 0 THEN <<s>>
            ELSE <<Take(s, i - 1)>> \o Split(Drop(s, i - 1 + Len(sep)), sep)
    IN  SplitAt(IndexOf(s, sep))

\* s.split(sep)[0]; s.split('') is the array of the characters of s
SplitFirst(s, sep) ==
    IF sep = "" THEN (IF s = "" THEN "undefined" ELSE CharAt(s, 1))
    ELSE Split(s, sep)[1]

RECURSIVE JoinSeq(_, _)
\* array.join(sep)
JoinSeq(parts, sep) ==
    IF parts = <<>> THEN ""
    ELSE IF Len(parts) = 1 THEN parts[1]
    ELSE parts[1] \o sep \o JoinSeq(Tail(parts), sep)

RECURSIVE ReplaceAll(_, _, _)
\* s.replace(/c/g, by) for a one-character pattern c
ReplaceAll(s, c, by) ==
    IF s = "" THEN ""
    ELSE (IF CharAt(s, 1) = c THEN by ELSE CharAt(s, 1)) \o ReplaceAll(Drop(s, 1), c, by)

\* s.replace(t, by) for a string pattern t: the first occurrence only
ReplaceFirst(s, t, by) ==
    LET ReplaceAt(i) ==
            IF i = 0 \/ t = "" THEN s
            ELSE Take(s, i - 1) \o by \o Drop(s, i - 1 + Len(t))
    IN  ReplaceAt(IndexOf(s, t))

Digits == {"0", "1", "2", "3", "4", "5", "6", "7", "8", "9"}

\* s.replace(/\d/, by): the first digit only
ReplaceFirstDigit(s, by) ==
    LET ReplaceAt(i) == IF i = 0 THEN s ELSE Take(s, i - 1) \o by \o Drop(s, i)
    IN  ReplaceAt(FirstOf({i \in 1..Len(s) : CharAt(s, i) \in Digits}))

RECURSIVE StripTrailingSlashes(_)
\* s.replace(/\/+$/, '')
StripTrailingSlashes(s) ==
    IF EndsWith(s, "/") THEN StripTrailingSlashes(Take(s, Len(s) - 1)) ELSE s

(***************************************************************************)
(* node's path module, POSIX flavour                                       *)
(***************************************************************************)
RECURSIVE NormalizeSegs(_, _, _)
\* normalizeArray / normalizeString: drop '' and '.', resolve '..'
NormalizeSegs(segs, acc, allowAbove) ==
    IF segs = <<>> THEN acc
    ELSE LET h == Head(segs) t == Tail(segs)
         IN  IF h = "" \/ h = "." THEN NormalizeSegs(t, acc, allowAbove)
             ELSE IF h = ".."
                  THEN IF acc # <<>> /\ acc[Len(acc)] # ".."
                       THEN NormalizeSegs(t, SubSeq(acc, 1, Len(acc) - 1), allowAbove)
                       ELSE IF allowAbove THEN NormalizeSegs(t, Append(acc, ".."), allowAbove)
                       ELSE NormalizeSegs(t, acc, allowAbove)
                  ELSE NormalizeSegs(t, Append(acc, h), allowAbove)

\* path.normalize
PathNormalize(p) ==
    LET Rooted(abs, b)       == IF abs THEN "/" \o b ELSE b
        Trailed(abs, t, b)   == Rooted(abs, IF b # "" /\ t THEN b \o "/" ELSE b)
        Dotted(abs, t, body) == Trailed(abs, t, IF body = "" /\ ~abs THEN "." ELSE body)
        Normalized(abs, t)   ==
            Dotted(abs, t, JoinSeq(NormalizeSegs(Split(p, "/"), <<>>, ~abs), "/"))
    IN  Normalized(StartsWith(p, "/"), EndsWith(p, "/"))

\* path.join(a, b, ...): the non-empty arguments joined by '/', normalized
PathJoin(parts) ==
    LET Joined(ne) == IF ne = <<>> THEN "." ELSE PathNormalize(JoinSeq(ne, "/"))
    IN  Joined(SelectSeq(parts, LAMBDA x : x # ""))

\* path.resolve(from, to) for an absolute `from`
PathResolve(from, to) ==
    LET p == IF StartsWith(to, "/") THEN to ELSE from \o "/" \o to
    IN  "/" \o JoinSeq(NormalizeSegs(Split(p, "/"), <<>>, FALSE), "/")

RECURSIVE CommonPrefixLen(_, _)
CommonPrefixLen(a, b) ==
    IF a = <<>> \/ b = <<>> \/ Head(a) # Head(b) THEN 0
    ELSE 1 + CommonPrefixLen(Tail(a), Tail(b))

\* path.relative(from, to) for absolute arguments
PathRelative(from, to) ==
    LET Climb(f, t, n) ==
            JoinSeq([i \in 1..(Len(f) - n) |-> ".."] \o SubSeq(t, n + 1, Len(t)), "/")
        Between(f, t) == Climb(f, t, CommonPrefixLen(f, t))
    IN  Between(NormalizeSegs(Split(from, "/"), <<>>, FALSE),
                NormalizeSegs(Split(to, "/"), <<>>, FALSE))

\* path.dirname
PathDirname(p) ==
    LET UpTo(q, i) ==
            IF i = 0 THEN "."
            ELSE IF i = 1 THEN "/"
            ELSE StripTrailingSlashes(Take(q, i - 1))
        DirOf(q) == UpTo(q, LastIndexOf(q, "/"))
    IN  DirOf(IF Len(p) > 1 THEN StripTrailingSlashes(p) ELSE p)

\* the last path segment, which extname and basename work on
LastSegment(p) ==
    LET SegOf(q) == Drop(q, LastIndexOf(q, "/"))
    IN  SegOf(IF Len(p) > 1 THEN StripTrailingSlashes(p) ELSE p)

\* path.extname: from the last '.' of the last segment, unless that '.' leads it
PathExtname(p) ==
    LET From(b, i) == IF i <= 1 \/ b = ".." THEN "" ELSE Drop(b, i - 1)
        ExtOf(b)   == From(b, LastIndexOf(b, "."))
    IN  ExtOf(LastSegment(p))

\* path.basename(p, ext)
PathBasename(p, ext) ==
    LET Without(b) ==
            IF ext # "" /\ ext # b /\ EndsWith(b, ext) THEN Take(b, Len(b) - Len(ext)) ELSE b
    IN  Without(LastSegment(p))

(***************************************************************************)
(* semver (the library): versions MAJOR.MINOR.PATCH, and the ranges        *)
(* '*', 'x.y.z', '^x.y.z', '~x.y.z', '>=x.y.z'; anything else is invalid   *)
(***************************************************************************)
DigitVal(c) ==
    CASE c = "0" -> 0 [] c = "1" -> 1 [] c = "2" -> 2 [] c = "3" -> 3 [] c = "4" -> 4
      [] c = "5" -> 5 [] c = "6" -> 6 [] c = "7" -> 7 [] c = "8" -> 8 [] c = "9" -> 9

IsNumeric(s) == s # "" /\ \A i \in 1..Len(s) : CharAt(s, i) \in Digits

RECURSIVE ParseNum(_)
ParseNum(s) ==
    IF s = "" THEN 0 ELSE 10 * ParseNum(Take(s, Len(s) - 1)) + DigitVal(CharAt(s, Len(s)))

\* semver.valid(v): truthy for MAJOR.MINOR.PATCH
SemverValid(v) ==
    LET Numeric(parts) == Len(parts) = 3 /\ \A i \in 1..3 : IsNumeric(parts[i])
    IN  Numeric(Split(v, "."))

\* new SemVer(v): <<major, minor, patch>>
SemverParse(v) ==
    LET Numbers(parts) == [i \in 1..3 |-> ParseNum(parts[i])]
    IN  Numbers(Split(v, "."))

\* semver.compare(a, b) < 0 on parsed versions
SemverLt(a, b) ==
    \/ a[1] < b[1]
    \/ a[1] = b[1] /\ a[2] < b[2]
    \/ a[1] = b[1] /\ a[2] = b[2] /\ a[3] < b[3]

SemverGte(a, b) == ~SemverLt(a, b)

\* new Range(r): the operator and its version; op "invalid" when the Range
\* constructor throws
RangeParse(r) ==
    IF r = "*" \/ r = "" THEN [op |-> "*", v |-> "0.0.0"]
    ELSE IF SemverValid(r) THEN [op |-> "=", v |-> r]
    ELSE IF StartsWith(r, "^") /\ SemverValid(Drop(r, 1)) THEN [op |-> "^", v |-> Drop(r, 1)]
    ELSE IF StartsWith(r, "~") /\ SemverValid(Drop(r, 1)) THEN [op |-> "~", v |-> Drop(r, 1)]
    ELSE IF StartsWith(r, ">=") /\ SemverValid(Drop(r, 2)) THEN [op |-> ">=", v |-> Drop(r, 2)]
    ELSE [op |-> "invalid", v |-> "0.0.0"]

\* semver.validRange(r), as a truth value
SemverValidRange(r) == RangeParse(r).op # "invalid"

\* semver.satisfies(version, range): false for an invalid range or version
SemverSatisfies(version, range) ==
    LET Test(op, a, b) ==
            CASE op = "*"  -> TRUE
              [] op = "="  -> a = b
              [] op = ">=" -> SemverGte(a, b)
              [] op = "~"  -> SemverGte(a, b) /\ a[1] = b[1] /\ a[2] = b[2]
              [] op = "^"  ->
                     /\ SemverGte(a, b)
                     /\ a[1] = b[1]
                     /\ (b[1] = 0 => a[2] = b[2])
                     /\ (b[1] = 0 /\ b[2] = 0 => a[3] = b[3])
        InRange(rg) ==
            /\ rg.op # "invalid"
            /\ SemverValid(version)
            /\ Test(rg.op, SemverParse(version), SemverParse(rg.v))
    IN  InRange(RangeParse(range))

\* semver.maxSatisfying(versions, range); "" is JavaScript's null
SemverMaxSatisfying(versions, range) ==
    LET MaxOf(sat) ==
            IF sat = {} THEN ""
            ELSE versions[CHOOSE i \in sat :
                     \A j \in sat : ~SemverLt(SemverParse(versions[i]), SemverParse(versions[j]))]
    IN  MaxOf({i \in 1..Len(versions) : SemverSatisfies(versions[i], range)})

(***************************************************************************)
(* neuron-pkg (the library): 'name[@version-or-range][/path]'              *)
(***************************************************************************)
\* pkg(title): an exact version lands in `version`, anything else in `range`
PkgParse(title) ==
    LET Obj(name, ver, exact, path) ==
            [name    |-> name,
             version |-> IF exact THEN ver ELSE "",
             range   |-> IF exact THEN "" ELSE ver,
             path    |-> path]
        Versioned(name, ver, path) == Obj(name, ver, SemverValid(ver), path)
        Named(head, at, path) ==
            Versioned(IF at = 0 THEN head ELSE Take(head, at - 1),
                      IF at = 0 THEN "" ELSE Drop(head, at), path)
        Headed(head, path) == Named(head, IndexOf(head, "@"), path)
        PathAt(slash) ==
            Headed(IF slash = 0 THEN title ELSE Take(title, slash - 1),
                   IF slash = 0 THEN "" ELSE Drop(title, slash - 1))
    IN  PathAt(IndexOf(title, "/"))

\* pkg.format(obj)
PkgFormat(obj) ==
    LET v == IF obj.version # "" THEN obj.version ELSE obj.range
    IN  obj.name \o (IF v # "" THEN "@" \o v ELSE "") \o obj.path

(***************************************************************************)
(* Lock graphs (cortex-shrinkwrap.json).  A graph is a table of nodes; a   *)
(* node holds its version and its dependencies as <<name, node id>> pairs  *)
(* in the order of the JSON object's keys.                                 *)
(***************************************************************************)
\* versions_cache[k], [] when absent
Lookup(cache, k) == IF k \in DOMAIN cache THEN cache[k] ELSE <<>>

InSeq(s, e) == \E i \in 1..Len(s) : s[i] = e

RECURSIVE digdeps(_, _, _, _)
RECURSIVE DigEach(_, _, _)
\* digdeps(k, node): record node.version under k, then dig node.dependencies
digdeps(k, id, nodes, cache) ==
    LET node == nodes[id]
        seen == Lookup(cache, k)
        c1   == IF seen = <<>> THEN (k :> <<node.version>>) @@ cache
                ELSE IF ~InSeq(seen, node.version)
                     THEN (k :> Append(seen, node.version)) @@ cache
                     ELSE cache
    IN  DigEach(node.deps, nodes, c1)

\* for (var name in deps) digdeps(name, deps[name])
DigEach(deps, nodes, cache) ==
    IF deps = <<>> THEN cache
    ELSE DigEach(Tail(deps), nodes, digdeps(Head(deps)[1], Head(deps)[2], nodes, cache))

\* Compiler.prototype._retrieve_all_versions
RetrieveAllVersions(shrinkwrap) ==
    digdeps(shrinkwrap.name, shrinkwrap.root, shrinkwrap.nodes, <<>>)

(***************************************************************************)
(* The Compiler object (src/index.js).  A method's result is               *)
(* [ok, val]: the returned string, or the message of the thrown error.     *)
(***************************************************************************)
Ok(v) == [ok |-> TRUE, val |-> v]

Throw(msg) == [ok |-> FALSE, val |-> msg]

\* the md5.json of <built_root>/<name>/<version>, <<>> when the file is
\* missing or is no JSON
ReadMd5Json(disk, path) ==
    LET hits == {i \in 1..Len(disk) : disk[i].path = path}
    IN  IF hits = {} THEN <<>> ELSE disk[CHOOSE i \in hits : TRUE].files

RECURSIVE RetrieveHashesFrom(_, _, _, _, _)
\* the forEach of _retrieve_hashes over this.facades
RetrieveHashesFrom(facades, built_root, versions, disk, hash) ==
    IF facades = <<>> THEN Ok(hash)
    ELSE LET Record(id, json) ==
                 RetrieveHashesFrom(Tail(facades), built_root, versions, disk,
                     IF ~(\E i \in 1..Len(hash) : hash[i].id = id) /\ json # <<>>
                     THEN Append(hash, [id |-> id, files |-> json]) ELSE hash)
             Read(mod, name, range, version) ==
                 IF version = ""
                 THEN Throw("No verify version found for " \o name \o "@" \o range)
                 ELSE Record(mod \o "@" \o version,
                             ReadMd5Json(disk,
                                 PathJoin(<<built_root, name, version, "md5.json">>)))
             Resolve(mod, name, range) ==
                 Read(mod, name, range, SemverMaxSatisfying(Lookup(versions, name), range))
             Parsed(mod, parts) ==
                 Resolve(mod, parts[1],
                         IF Len(parts) > 1 /\ parts[2] # "" THEN parts[2] ELSE "*")
             Facade1(mod) == Parsed(mod, Split(mod, "@"))
         IN  Facade1(Split(Head(facades), "/")[1])

\* Compiler.prototype._retrieve_hashes; val <<>> is null
RetrieveHashes(facades, built_root, versions, disk) ==
    RetrieveHashesFrom(facades, built_root, versions, disk, <<>>)

RECURSIVE ParseFileHash(_, _)
\* Compiler.prototype._parse_file_hash: <<file path, hash>> pairs, in the
\* order the object was filled (a later pair for a path overwrites)
ParseFileHash(neuron_hash, mod_root) ==
    IF neuron_hash = <<>> THEN <<>>
    ELSE LET f == Head(neuron_hash)
         IN  [i \in 1..Len(f.files) |->
                 <<PathJoin(<<mod_root, ReplaceFirst(f.id, "@", "/"), f.files[i][1]>>),
                   f.files[i][2]>>]
             \o ParseFileHash(Tail(neuron_hash), mod_root)

\* file_hash[absolute_path], "" when absent
FileHashOf(file_hash, path) ==
    LET Entry(i) == IF i = 0 THEN "" ELSE file_hash[i][2]
    IN  Entry(LastOf({i \in 1..Len(file_hash) : file_hash[i][1] = path}))

\* Compiler.prototype._resolve_root: the value assigned to the global `root`
ResolveRoot(o, mod_root) ==
    IF o.template_dir # ""
    THEN PathJoin(<<PathJoin(<<mod_root, o.pkg.name, o.pkg.version>>),
                    PathRelative(o.template_dir, o.path)>>)
    ELSE mod_root \o "/" \o o.pkg.name \o "/" \o o.pkg.version \o o.html_root

\* function Compiler (options): the fields of the new object
NewCompiler(o) ==
    LET built_root == PathJoin(<<o.cwd, IF o.env.dest # "" THEN o.env.dest ELSE "neurons">>)
        facades    == IF o.facades = <<>> THEN <<o.pkg.name>> ELSE o.facades
        Fields(versions, neuron_hash, mod_root, cwd, path, dir) ==
            [facade_counter |-> 0,
             pkg          |-> o.pkg,
             shrinkwrap   |-> o.shrinkwrap,
             graph        |-> o.graph,
             hosts        |-> o.hosts,
             hash_host    |-> o.hash_host,
             versions     |-> versions,
             enable_md5   |-> o.env.md5,
             neuron_hash  |-> neuron_hash,
             file_hash    |-> ParseFileHash(neuron_hash, o.mod_root),
             mod_root     |-> mod_root,
             root         |-> ResolveRoot(o, mod_root),
             is_new_logic |-> o.template_dir # "",
             href_root    |-> StripTrailingSlashes(o.href_root),
             cwd          |-> cwd,
             path         |-> path,
             dir          |-> dir,
             relative_cwd |-> PathJoin(<<"..", "..", PathRelative(dir, cwd)>>)]
        Located(versions, neuron_hash, cwd, path) ==
            Fields(versions, neuron_hash,
                   ReplaceFirst(o.mod_root, "/" \o o.pkg.name \o "/" \o o.pkg.version, ""),
                   cwd, path, PathDirname(path))
        Hashed(versions, cwd) ==
            Located(versions, RetrieveHashes(facades, built_root, versions, o.disk).val,
                    cwd, PathResolve(cwd, o.path))
    IN  Hashed(RetrieveAllVersions(o.shrinkwrap), PathResolve(o.cwd, ""))

\* the constructor throws when _retrieve_hashes does
ConstructorThrows(o) ==
    LET built_root == PathJoin(<<o.cwd, IF o.env.dest # "" THEN o.env.dest ELSE "neurons">>)
        facades    == IF o.facades = <<>> THEN <<o.pkg.name>> ELSE o.facades
    IN  ~RetrieveHashes(facades, built_root, RetrieveAllVersions(o.shrinkwrap), o.disk).ok

(***************************************************************************)
(* Path resolution.  `self` is the Compiler object, `g` the value of the   *)
(* global variable `root` at the time of the call.                         *)
(***************************************************************************)
\* Compiler.prototype._is_absolute
IsAbsolute(title) == StartsWith(title, "/")

\* Compiler.prototype._append_md5_to_absolute_path
AppendMd5ToAbsolutePath(self, absolute_path) ==
    LET Insert(hash, ext) == SplitFirst(absolute_path, ext) \o "_" \o hash \o ext
        Rewrite(hash) ==
            IF hash = "" \/ ~self.enable_md5 THEN absolute_path
            ELSE Insert(hash, PathExtname(absolute_path))
    IN  Rewrite(FileHashOf(self.file_hash, absolute_path))

\* Compiler.prototype._to_absolute_path
ToAbsolutePath(self, g, path) ==
    LET Hashed(absolute_path) ==
            IF self.is_new_logic THEN AppendMd5ToAbsolutePath(self, absolute_path)
            ELSE absolute_path
    IN  Hashed(IF IsAbsolute(path) THEN path ELSE PathJoin(<<g, path>>))

\* Compiler.prototype._get_host; hosts[k] of the code is hosts[k + 1] here
GetHost(self, path, hash) ==
    LET hosts == self.hosts
        Placeholder(frag) == JoinSeq(<<ReplaceFirstDigit(frag[1], "{n}")>> \o Tail(frag), ".")
        Marked(host) == IF hash THEN Placeholder(Split(host, ".")) ELSE host
    IN  Marked(IF hash THEN hosts[(Len(path) % Len(hosts)) + 1] ELSE hosts[1])

\* Compiler.prototype._to_url_path
ToUrlPath(path) == ReplaceAll(path, "\\", "/")

\* Compiler.prototype._resolve_path
ResolvePath(self, g, path, hash_host) ==
    LET Hosted(absolute_path) ==
            ToUrlPath(IF self.root # "" /\ self.hosts # <<>>
                      THEN "//" \o GetHost(self, absolute_path, hash_host) \o absolute_path
                      ELSE path)
    IN  Hosted(ToAbsolutePath(self, g, path))

\* this.ext[ext_name] || ext
ChangedExt(ext) ==
    LET ext_name == IF StartsWith(ext, ".") THEN Drop(ext, 1) ELSE ext
    IN  CASE ext_name = "js"  -> ".js"
          [] ext_name = "css" -> ".css"
          [] OTHER            -> ext

\* Compiler.prototype._static_path
StaticPath(title) ==
    LET Changed(ext, dir) ==
            IF IsAbsolute(title) THEN title
            ELSE dir \o "/" \o PathBasename(title, ext) \o ChangedExt(ext)
    IN  Changed(PathExtname(title), PathDirname(title))

\* Compiler.prototype._static_handler
StaticHandler(self, g, title) == Ok(ResolvePath(self, g, StaticPath(title), FALSE))

\* Compiler.prototype._mod_file_path
ModFilePath(self, g, title) ==
    LET base == IF self.hosts # <<>> THEN self.mod_root
                ELSE ResolvePath(self, g, self.relative_cwd, FALSE)
        Located(name, range, version, path) ==
            IF name \notin DOMAIN self.versions
            THEN Throw("Module \"" \o name \o "\" not found, please install first.")
            ELSE IF version = ""
            THEN Throw("Valid version not found for module " \o name \o "@" \o range)
            ELSE Ok(ReplaceAll(PathJoin(<<base, name, version, path>>), "\\", "/"))
        Stripped(name, range, path) ==
            Located(name, range, SemverMaxSatisfying(Lookup(self.versions, name), range),
                    IF StartsWith(path, "/") THEN Drop(path, 1) ELSE path)
        Parsed(obj) ==
            Stripped(obj.name, IF obj.range # "" THEN obj.range ELSE "*",
                     IF obj.path = "" THEN obj.name \o ".js" ELSE obj.path)
    IN  Parsed(PkgParse(title))

\* Compiler.prototype._modfile_handler
ModfileHandler(self, g, title) ==
    LET Resolved(path) == IF path.ok THEN Ok(ResolvePath(self, g, path.val, FALSE)) ELSE path
    IN  Resolved(ModFilePath(self, g, title))

RECURSIVE ComboPaths(_, _, _)
\* the forEach of _combo_handler over the non-empty entries: the paths, or
\* the error of the first entry that throws
ComboPaths(self, g, mods) ==
    IF mods = <<>> THEN [ok |-> TRUE, val |-> "", paths |-> <<>>]
    ELSE LET Collect(path, rest) ==
                 IF ~path.ok THEN [ok |-> FALSE, val |-> path.val, paths |-> <<>>]
                 ELSE IF ~rest.ok THEN rest
                 ELSE [ok |-> TRUE, val |-> "", paths |-> <<path.val>> \o rest.paths]
             PathOf(mod) ==
                 IF StartsWith(mod, ".")
                 THEN Ok(ToAbsolutePath(self, g, StaticPath(mod)))
                 ELSE ModFilePath(self, g, mod)
         IN  Collect(PathOf(Head(mods)), ComboPaths(self, g, Tail(mods)))

\* Compiler.prototype._combo_handler
ComboHandler(self, g, title) ==
    IF title = "" THEN Ok("")
    ELSE LET Final(paths) ==
                 "/concat/" \o
                 JoinSeq([i \in 1..Len(paths) |-> ReplaceAll(paths[i], "/", "~")], ",")
             Concat(r) ==
                 IF r.ok THEN Ok(ResolvePath(self, g, Final(r.paths), FALSE))
                 ELSE Throw(r.val)
         IN  Concat(ComboPaths(self, g, SelectSeq(Split(title, ","), LAMBDA m : m # "")))

\* Compiler.prototype._version_handler
VersionHandler(self) == Ok(self.pkg.version)

(***************************************************************************)
(* href                                                                    *)
(***************************************************************************)
\* _is_parent_path testing the prefix '..' instead of the segment '../'
IsParentPathAnyPrefix(path) == StartsWith(path, "..")

\* Compiler.prototype._is_parent_path
IsParentPath(path) == path = ".." \/ StartsWith(path, "../")

\* Compiler.prototype._is_relative
IsRelative(path) == path = "." \/ StartsWith(path, "./") \/ IsParentPath(path)

\* Compiler.prototype._hybrid_href
HybridHref(self, title) ==
    IF ~IsRelative(title) THEN Ok(self.href_root \o "/" \o title)
    ELSE LET Linked(link_relative) ==
                 IF IsParentPath(link_relative)
                 THEN Throw("You should never link to a resource outside current project.")
                 ELSE Ok(JoinSeq(<<self.href_root, self.pkg.name, link_relative>>, "/"))
         IN  Linked(PathRelative(self.cwd, PathJoin(<<self.dir, title>>)))

\* Compiler.prototype._href_handler
HrefHandler(self, title) ==
    IF title = "" THEN Throw("invalid argument for helper href.")
    ELSE IF self.href_root # "" THEN HybridHref(self, title)
    ELSE Ok(title)

(***************************************************************************)
(* facade.  A helper argument is [kind, s]: kind "none" (no argument),     *)
(* "object" (handlebars' options hash, what a bare {{facade}} passes) or   *)
(* "string".                                                               *)
(***************************************************************************)
NoArg == [kind |-> "none", s |-> ""]

ObjArg == [kind |-> "object", s |-> ""]

Str(s) == [kind |-> "string", s |-> s]

\* _facade_mod without the forced version of a self reference
FacadeModVersionNotForced(self, title) ==
    LET Formatted(obj, ext, range) ==
            IF obj.version # "" THEN Ok(PkgFormat(obj) \o ext)
            ELSE IF ~(SemverValidRange(range) \/ range = "*")
            THEN Throw("facade_name is not defined")
            ELSE Ok(PkgFormat([obj EXCEPT !.range = range]) \o ext)
        Parsed(obj) ==
            Formatted(obj, IF obj.path # "" THEN ".js" ELSE "",
                      IF obj.range # "" THEN obj.range ELSE "*")
    IN  IF title.kind # "string" \/ title.s = ""
        THEN Ok(PkgFormat([name |-> self.pkg.name, version |-> self.pkg.version,
                           range |-> "", path |-> ""]))
        ELSE Parsed(PkgParse(title.s))

\* Compiler.prototype._facade_mod
FacadeMod(self, title) ==
    LET name    == self.pkg.name
        version == self.pkg.version
        Formatted(obj, ext, range) ==
            IF obj.version # "" THEN Ok(PkgFormat(obj) \o ext)
            ELSE IF ~(SemverValidRange(range) \/ range = "*")
            THEN Throw("facade_name is not defined")
            ELSE Ok(PkgFormat([obj EXCEPT !.range = range]) \o ext)
        Ranged(obj, ext) == Formatted(obj, ext, IF obj.range # "" THEN obj.range ELSE "*")
        Parsed(obj) ==
            Ranged(IF obj.name = name THEN [obj EXCEPT !.version = version] ELSE obj,
                   IF obj.path # "" THEN ".js" ELSE "")
    IN  IF title.kind # "string" \/ title.s = ""
        THEN Ok(PkgFormat([name |-> name, version |-> version, range |-> "", path |-> ""]))
        ELSE Parsed(PkgParse(title.s))

\* Compiler.prototype._normalize
NormalizeEngine(self, g, name, version) ==
    ResolvePath(self, g, PathJoin(<<self.relative_cwd, name, version, name \o ".js">>), FALSE)

\* Compiler.prototype._output_engines over _get_engines
OutputEngines(self, g) ==
    LET es == self.shrinkwrap.engines
    IN  JoinSeq([i \in 1..Len(es) |->
                    "<script src=\"" \o NormalizeEngine(self, g, es[i].name, es[i].version)
                    \o "\"></script>"], "")

\* the path _neuron_config puts in the loader configuration
ConfigPath(self, g) == ResolvePath(self, g, self.relative_cwd, TRUE)

\* JSON.stringify(this.neuron_hash)
HashJson(neuron_hash) ==
    "{" \o JoinSeq([i \in 1..Len(neuron_hash) |->
        "\"" \o neuron_hash[i].id \o "\":{" \o
        JoinSeq([k \in 1..Len(neuron_hash[i].files) |->
            "\"" \o neuron_hash[i].files[k][1] \o "\":\"" \o neuron_hash[i].files[k][2] \o "\""],
            ",") \o "}"], ",") \o "}"

\* Compiler.prototype._neuron_config
NeuronConfig(self, g) ==
    "<script>neuron.config({\"graph\":" \o self.graph
    \o ",\"path\":\"" \o ConfigPath(self, g) \o "\""
    \o (IF self.neuron_hash # <<>> /\ self.enable_md5
        THEN ",\"hash\":" \o HashJson(self.neuron_hash) ELSE "")
    \o "});</script>"

\* Compiler.prototype._neuron_framework
NeuronFramework(self, g) == OutputEngines(self, g) \o NeuronConfig(self, g)

\* the entry-module script of _facade_handler
FacadeScript(entry) == "<script>facade({entry:\"" \o entry \o "\"});</script>"

\* _facade_handler with the counter test dropped: the bootstrap on every call
FacadeHandlerEveryCall(self, g, title) ==
    LET Emit(entry) ==
            IF entry.ok THEN Ok(NeuronFramework(self, g) \o FacadeScript(entry.val)) ELSE entry
    IN  Emit(FacadeMod(self, title))

\* Compiler.prototype._facade_handler, given the counter before the call;
\* the counter itself is incremented by the action
FacadeHandler(self, g, title) ==
    LET output == IF self.facade_counter = 0 THEN NeuronFramework(self, g) ELSE ""
        Emit(entry) == IF entry.ok THEN Ok(output \o FacadeScript(entry.val)) ELSE entry
    IN  Emit(FacadeMod(self, title))

(***************************************************************************)
(* Inputs: lock graphs, constructor options, helper arguments              *)
(***************************************************************************)
\* the facade counter is followed up to this many facade calls per Compiler
MaxCalls == 2

\* the longest host list configured
MaxHosts == 2

HostPool == <<"a1.cdn.com", "a2.cdn.com", "b3.cdn.com", "c4.cdn.com">>

\* foo@0.2.0 -> bar@1.0.0, baz@1.2.0 -> bar@2.0.0
FooGraph ==
    [name |-> "foo", root |-> 1,
     nodes |-> << [version |-> "0.2.0", deps |-> << <<"bar", 2>>, <<"baz", 3>> >>],
                  [version |-> "1.0.0", deps |-> <<>>],
                  [version |-> "1.2.0", deps |-> << <<"bar", 4>> >>],
                  [version |-> "2.0.0", deps |-> <<>>] >>,
     engines |-> << [name |-> "neuron", version |-> "5.0.0"] >>]

\* app.js@1.0.0 -> foo@0.2.0
AppGraph ==
    [name |-> "app.js", root |-> 1,
     nodes |-> << [version |-> "1.0.0", deps |-> << <<"foo", 2>> >>],
                  [version |-> "0.2.0", deps |-> <<>>] >>,
     engines |-> << [name |-> "neuron", version |-> "5.0.0"] >>]

\* the md5.json files under <cwd>/neurons
Disk ==
    << [path |-> "/p/neurons/foo/0.2.0/md5.json",
        files |-> << <<"a.js", "a9e2">>, <<"LICENSE", "d1b6">> >>],
       [path |-> "/q/neurons/app.js/1.0.0/md5.json",
        files |-> << <<"app.js", "b6a9">> >>] >>

FooOptions ==
    LET all ==
        {[pkg |-> [name |-> "foo", version |-> "0.2.0"], shrinkwrap |-> FooGraph,
          graph |-> "{}", cwd |-> "/p", path |-> path, mod_root |-> "/m",
          template_dir |-> IF newlogic THEN "/p" ELSE "", html_root |-> "/t",
          hosts |-> SubSeq(HostPool, 1, n), hash_host |-> hash_host,
          href_root |-> "efte://efte/", facades |-> <<>>,
          env |-> [dest |-> "", md5 |-> newlogic], disk |-> Disk] :
            path \in {"/p/a.html", "/p/template/a.html"}, newlogic \in BOOLEAN,
            n \in 0..MaxHosts, hash_host \in BOOLEAN}
    IN  {o \in all : o.hosts = <<>> => o.hash_host}

AppOptions ==
    {[pkg |-> [name |-> "app.js", version |-> "1.0.0"], shrinkwrap |-> AppGraph,
      graph |-> "{}", cwd |-> "/q", path |-> "/q/a.html", mod_root |-> "/m",
      template_dir |-> "/q", html_root |-> "", hosts |-> SubSeq(HostPool, 1, 1),
      hash_host |-> TRUE, href_root |-> "", facades |-> facades,
      env |-> [dest |-> "", md5 |-> TRUE], disk |-> Disk] :
        facades \in {<<>>, <<"app.js", "qux">>}}

Insts == {"A", "B"}

OptionsOf(i) == IF i = "A" THEN FooOptions ELSE AppOptions

FacadeArgs ==
    {NoArg, ObjArg} \cup
    {Str(t) : t \in {"", "foo", "foo@9.9.9/abc", "foo@blah", "bar", "bar@^1.0.0/x",
                     "bar@1.0.0", "bar@^3.0.0", "bar@blah", "qux"}}

ModfileTitles ==
    {"bar/x.js", "bar@1.0.0/x.js", "bar@^1.0.0/x.js", "bar@^3.0.0/x.js", "bar@blah/x.js",
     "qux/x.js", "baz", "foo/a.js", "foo/LICENSE", "app.js/app.js"}

HrefTitles ==
    {"", ".", "..", "./b.html", "b/b.html", "../b.html", "../../b.html", "./sub/c.html",
     "../template/../../b.html", "./..b/c.html", "./sub/../../p/b.html"}

StaticTitles == {"./a.css", "/abs/a.js", "../../x.css", "img/a.png"}

ComboTitles ==
    {"", "./a.css,bar@1.0.0/b.js", "../../x.css", "./a.css,,qux/b.js",
     "bar/../../../../x.js"}

Md5Paths ==
    {"/m/foo/0.2.0/a.js", "/m/foo/0.2.0/LICENSE", "/m/app.js/1.0.0/app.js",
     "/m/foo/0.2.0/b.js"}

(***************************************************************************)
(* State                                                                   *)
(***************************************************************************)
VARIABLES
    compilers,    \* the Compiler objects constructed so far, by instance
    root,         \* the process-global `root` (node's alias of `global`), which
                  \* _resolve_root assigns and _to_absolute_path reads
    hb_helpers,   \* handlebars' helper table: the instance whose handlers it holds
    templates,    \* the instances that have a compiled template function
    last,         \* the last call: method, template owner, handling instance, result
    run,          \* the template invocation in progress: the template's owner and
                  \* the number of facade directives it has executed so far
    dig           \* a _retrieve_all_versions call followed frame by frame

vars == <<compilers, root, hb_helpers, templates, last, run, dig>>

Call(method, owner, by, arg, r) ==
    [method |-> method, owner |-> owner, by |-> by, arg |-> arg,
     ok |-> r.ok, val |-> r.val]

\* no call is in progress: the last result has been taken
Idle == Call("none", "none", "none", NoArg, Ok(""))

\* no template function has been called
NoRun == [owner |-> "none", facades |-> 0]

\* no _retrieve_all_versions call is being followed
NoDig ==
    [status |-> "none", shrinkwrap |-> [name |-> "", root |-> 1, nodes |-> <<>>],
     stack |-> <<>>, versions_cache |-> <<>>]

Init ==
    /\ compilers = <<>>
    /\ root = ""
    /\ hb_helpers = "none"
    /\ templates = {}
    /\ last = Idle
    /\ run = NoRun
    /\ dig = NoDig

(***************************************************************************)
(* Actions                                                                 *)
(***************************************************************************)
\* compiler(options): new Compiler(options)
Construct(i, o) ==
    /\ last = Idle
    /\ i \notin DOMAIN compilers
    /\ IF ConstructorThrows(o)
       THEN /\ UNCHANGED <<compilers, root>>
            /\ last' = Call("new", i, i, NoArg, Throw("No verify version found"))
       ELSE /\ compilers' = (i :> NewCompiler(o)) @@ compilers
            /\ root' = compilers'[i].root
            /\ last' = Call("new", i, i, NoArg, Ok(""))
    /\ UNCHANGED <<hb_helpers, templates, run, dig>>

\* Compiler.prototype.compile: every helper of this instance is registered
\* with the handlebars singleton, then the template function is returned
Compile(i) ==
    /\ last = Idle
    /\ i \in DOMAIN compilers
    /\ hb_helpers' = i
    /\ templates' = templates \cup {i}
    /\ last' = Call("compile", i, i, NoArg, Ok(""))
    /\ UNCHANGED <<compilers, root, run, dig>>

\* handlebars calls the facade helper for {{facade title}} of a template
\* compiled by `t`: it looks the helper up in its table when the template runs
FacadeCall(t, title) ==
    /\ last = Idle
    /\ t \in templates
    /\ LET by == hb_helpers self == compilers[by]
       IN  /\ self.facade_counter < MaxCalls
           /\ compilers' = [compilers EXCEPT ![by].facade_counter = @ + 1]
           /\ last' = Call("facade", t, by, title, FacadeHandler(self, root, title))
    /\ UNCHANGED <<root, hb_helpers, templates, dig>>

\* a template compiled by `t` runs {{facade title}}, in whichever invocation
Facade(t, title) == FacadeCall(t, title) /\ UNCHANGED run

Href(t, title) ==
    /\ last = Idle
    /\ t \in templates
    /\ last' = Call("href", t, hb_helpers, Str(title), HrefHandler(compilers[hb_helpers], title))
    /\ UNCHANGED <<compilers, root, hb_helpers, templates, run, dig>>

Static(t, title) ==
    /\ last = Idle
    /\ t \in templates
    /\ last' = Call("static", t, hb_helpers, Str(title),
                    StaticHandler(compilers[hb_helpers], root, title))
    /\ UNCHANGED <<compilers, root, hb_helpers, templates, run, dig>>

Modfile(t, title) ==
    /\ last = Idle
    /\ t \in templates
    /\ last' = Call("modfile", t, hb_helpers, Str(title),
                    ModfileHandler(compilers[hb_helpers], root, title))
    /\ UNCHANGED <<compilers, root, hb_helpers, templates, run, dig>>

Combo(t, title) ==
    /\ last = Idle
    /\ t \in templates
    /\ last' = Call("combo", t, hb_helpers, Str(title),
                    ComboHandler(compilers[hb_helpers], root, title))
    /\ UNCHANGED <<compilers, root, hb_helpers, templates, run, dig>>

Version(t) ==
    /\ last = Idle
    /\ t \in templates
    /\ last' = Call("version", t, hb_helpers, ObjArg, VersionHandler(compilers[hb_helpers]))
    /\ UNCHANGED <<compilers, root, hb_helpers, templates, run, dig>>

\* a direct call of instance i's _append_md5_to_absolute_path
AppendMd5(i, path) ==
    /\ last = Idle
    /\ i \in DOMAIN compilers
    /\ last' = Call("_append_md5_to_absolute_path", i, i, Str(path),
                    Ok(AppendMd5ToAbsolutePath(compilers[i], path)))
    /\ UNCHANGED <<compilers, root, hb_helpers, templates, run, dig>>

\* the caller (handlebars, for a helper) takes the result of the call
Return ==
    /\ last # Idle
    /\ last' = Idle
    /\ UNCHANGED <<compilers, root, hb_helpers, templates, run, dig>>

\* a direct call of instance i's _mod_file_path
ModFilePathOf(i, title) ==
    /\ last = Idle
    /\ i \in DOMAIN compilers
    /\ last' = Call("_mod_file_path", i, i, Str(title), ModFilePath(compilers[i], root, title))
    /\ UNCHANGED <<compilers, root, hb_helpers, templates, run, dig>>

Next ==
    \/ \E i \in Insts : \E o \in OptionsOf(i) : Construct(i, o)
    \/ \E i \in Insts : Compile(i)
    \/ \E t \in Insts : \E title \in FacadeArgs : Facade(t, title)
    \/ \E t \in Insts : \E title \in HrefTitles : Href(t, title)
    \/ \E t \in Insts : \E title \in StaticTitles : Static(t, title)
    \/ \E t \in Insts : \E title \in ModfileTitles : Modfile(t, title)
    \/ \E t \in Insts : \E title \in ComboTitles : Combo(t, title)
    \/ \E t \in Insts : Version(t)
    \/ \E i \in Insts : \E path \in Md5Paths : AppendMd5(i, path)
    \/ \E i \in Insts : \E title \in ModfileTitles : ModFilePathOf(i, title)
    \/ Return

Spec == Init /\ [][Next]_vars

(***************************************************************************)
(* Template invocations.  compile returns a function; each call of it runs *)
(* the template once, synchronously, so one invocation is in progress at a *)
(* time.                                                                   *)
(***************************************************************************)
\* the template function compile returned to `t` is called
Invoke(t) ==
    /\ last = Idle
    /\ t \in templates
    /\ run' = [owner |-> t, facades |-> 0]
    /\ UNCHANGED <<compilers, root, hb_helpers, templates, last, dig>>

\* the invocation in progress reaches a {{facade title}}; a helper that
\* throws ends the invocation
FacadeOfRun(t, title) ==
    /\ run.owner = t
    /\ FacadeCall(t, title)
    /\ run' = IF last'.ok THEN [run EXCEPT !.facades = @ + 1] ELSE NoRun

NextInvocations ==
    \/ \E i \in Insts : \E o \in OptionsOf(i) : Construct(i, o)
    \/ \E i \in Insts : Compile(i)
    \/ \E t \in Insts : Invoke(t)
    \/ \E t \in Insts : \E title \in FacadeArgs : FacadeOfRun(t, title)
    \/ Return

SpecInvocations == Init /\ [][NextInvocations]_vars

(***************************************************************************)
(* _retrieve_all_versions, one digdeps call or return per step, over lock  *)
(* graphs given as objects (options.shrinkwrap), in which a dependency may *)
(* be any node of the table, the node itself or an ancestor included.      *)
(***************************************************************************)
\* the lock graphs have up to this many nodes
MaxNodes == 3

\* the call stack holds this many digdeps frames, more than any path of a
\* graph without a cycle needs; one more call is the engine's RangeError
MaxStack == 4

DigVersions == {"1.0.0", "2.0.0"}

\* node.dependencies: no key, one key, or the keys foo and bar
DepLists ==
    {<<>>}
    \cup {<< <<n, i>> >> : n \in {"foo", "bar"}, i \in 1..MaxNodes}
    \cup {<< <<"foo", i>>, <<"bar", j>> >> : i \in 1..MaxNodes, j \in 1..MaxNodes}

\* the shrinkwraps of a project foo@1.0.0
DigGraphs ==
    {[name |-> "foo", root |-> 1, nodes |-> nodes] :
        nodes \in {t \in [1..MaxNodes -> [version : DigVersions, deps : DepLists]] :
                      t[1].version = "1.0.0"}}

\* lines 209-215 of digdeps: node.version recorded under k
Recorded(cache, k, version) ==
    LET Pushed(seen) ==
            IF seen = <<>> THEN (k :> <<version>>) @@ cache
            ELSE IF ~InSeq(seen, version) THEN (k :> Append(seen, version)) @@ cache
            ELSE cache
    IN  Pushed(Lookup(cache, k))

InitDig ==
    /\ compilers = <<>>
    /\ root = ""
    /\ hb_helpers = "none"
    /\ templates = {}
    /\ last = Idle
    /\ run = NoRun
    /\ dig \in {[status |-> "start", shrinkwrap |-> g, stack |-> <<>>,
                  versions_cache |-> <<>>] : g \in DigGraphs}

\* digdeps(this.shrinkwrap.name, this.shrinkwrap)
DigStart ==
    /\ dig.status = "start"
    /\ LET g == dig.shrinkwrap
       IN  dig' = [dig EXCEPT
                      !.status = "digging",
                      !.versions_cache = Recorded(<<>>, g.name, g.nodes[g.root].version),
                      !.stack = <<[node |-> g.root, next |-> 1]>>]
    /\ UNCHANGED <<compilers, root, hb_helpers, templates, last, run>>

\* the for-in loop of the innermost frame calls digdeps(name, deps[name])
DigDescend ==
    /\ dig.status = "digging"
    /\ LET top  == dig.stack[Len(dig.stack)]
           deps == dig.shrinkwrap.nodes[top.node].deps
       IN  /\ top.next <= Len(deps)
           /\ IF Len(dig.stack) >= MaxStack
              THEN dig' = [dig EXCEPT !.status = "overflow", !.stack = <<>>]
              ELSE dig' = [dig EXCEPT
                              !.versions_cache =
                                  Recorded(@, deps[top.next][1],
                                           dig.shrinkwrap.nodes[deps[top.next][2]].version),
                              !.stack =
                                  Append([@ EXCEPT ![Len(@)].next = top.next + 1],
                                         [node |-> deps[top.next][2], next |-> 1])]
    /\ UNCHANGED <<compilers, root, hb_helpers, templates, last, run>>

\* the innermost frame has gone through its dependencies and returns; the
\* return of the outermost one hands versions_cache to the constructor
DigReturn ==
    /\ dig.status = "digging"
    /\ LET top  == dig.stack[Len(dig.stack)]
           deps == dig.shrinkwrap.nodes[top.node].deps
       IN  /\ top.next > Len(deps)
           /\ dig' = [dig EXCEPT
                          !.status = IF Len(dig.stack) = 1 THEN "done" ELSE "digging",
                          !.stack = SubSeq(@, 1, Len(@) - 1)]
    /\ UNCHANGED <<compilers, root, hb_helpers, templates, last, run>>

NextDig == DigStart \/ DigDescend \/ DigReturn

SpecDig == InitDig /\ [][NextDig]_vars

(***************************************************************************)
(* Properties                                                              *)
(***************************************************************************)
Contains(s, t) == IndexOf(s, t) > 0

\* the instance whose handler served the last call
Handler == compilers[last.by]

HelperCall(m) == last.method = m /\ last.by \in DOMAIN compilers

\* the engine script tags followed by the loader-config script
HasBootstrap(out) ==
    /\ StartsWith(out, "<script src=")
    /\ Contains(out, "</script><script>neuron.config(")

NoBootstrap(out) == ~Contains(out, "<script src=") /\ ~Contains(out, "neuron.config(")

HasEntryScript(out) ==
    /\ Contains(out, "<script>facade({entry:\"")
    /\ EndsWith(out, "\"});</script>")

\* C1: over any sequence of facade calls served by one Compiler, the output
\* of a call holds the bootstrap block (engine tags, then the loader config,
\* ahead of everything else) exactly when it is the first facade call the
\* Compiler serves, and the output of every call holds the entry script.
C1_BootstrapOnFirstFacadeOnly ==
    (HelperCall("facade") /\ last.ok) =>
        /\ HasEntryScript(last.val)
        /\ (Handler.facade_counter = 1 => HasBootstrap(last.val))
        /\ (Handler.facade_counter > 1 => NoBootstrap(last.val))

\* a second facade call has returned, and a first one before it
C1_Witness ==
    /\ HelperCall("facade") /\ last.ok
    /\ Handler.facade_counter = 2
    /\ NoBootstrap(last.val)

Directives == {"facade", "href", "static", "modfile", "combo", "version"}

\* C2: with two Compilers in one process, under every interleaving of their
\* compile calls and of runs of the templates they returned, a directive of
\* a template compiled by one instance is resolved by that instance's
\* handlers, never by the other's.
C2_ResolvedByOwnCompiler ==
    last.method \in Directives => last.by = last.owner

\* the reference a modfile / facade title names, and the range it writes
\* after '@' (the wildcard when it writes none)
RefOf(title) ==
    LET obj     == PkgParse(title)
        written == IF obj.version # "" THEN obj.version ELSE obj.range
    IN  [name |-> obj.name, range |-> IF written = "" THEN "*" ELSE written,
         path |-> obj.path]

\* the installed versions of `name` that satisfy `range`
Satisfying(versions, name, range) ==
    LET installed == Lookup(versions, name)
    IN  {installed[i] : i \in {k \in 1..Len(installed) : SemverSatisfies(installed[k], range)}}

IsMaxOf(v, sat) ==
    v \in sat /\ \A w \in sat : ~SemverLt(SemverParse(v), SemverParse(w))

\* C3: for a name in the version index and a range some installed version
\* satisfies, modfile 'name@range/path' resolves to the greatest satisfying
\* version, a member of the index's versions of that name.
C3_ModfileSelectsMaxSatisfying ==
    HelperCall("_mod_file_path") =>
        LET ref == RefOf(last.arg.s)
            sat == Satisfying(Handler.versions, ref.name, ref.range)
        IN  (ref.name \in DOMAIN Handler.versions /\ sat # {}) =>
                /\ last.ok
                /\ \E v \in sat :
                       /\ IsMaxOf(v, sat)
                       /\ Contains(last.val, "/" \o ref.name \o "/" \o v \o "/")

\* the error _mod_file_path throws when no installed version satisfies
NoSatisfyingVersion(msg) == StartsWith(msg, "Valid version not found for module")

\* C4: for a name in the version index, modfile fails with RangeInvalid on a
\* malformed range and with NoSatisfyingVersion on a well-formed range no
\* installed version satisfies, and the two failures differ.
C4_RangeInvalidIsDistinct ==
    HelperCall("_mod_file_path") =>
        LET ref == RefOf(last.arg.s)
            sat == Satisfying(Handler.versions, ref.name, ref.range)
        IN  ref.name \in DOMAIN Handler.versions =>
                /\ ~SemverValidRange(ref.range) =>
                       ~last.ok /\ ~NoSatisfyingVersion(last.val)
                /\ (SemverValidRange(ref.range) /\ sat = {}) =>
                       ~last.ok /\ NoSatisfyingVersion(last.val)

\* C5: facade naming another package without an explicit version returns
\* name@resolvedVersion[/path], resolvedVersion picked by range resolution
\* against the project's lock graph (range defaulted to the wildcard), and
\* fails when the range is invalid or nothing installed satisfies it.
C5_FacadeResolvesRange ==
    (HelperCall("facade") /\ last.arg.kind = "string" /\ last.arg.s # "") =>
        LET obj == PkgParse(last.arg.s)
            ref == RefOf(last.arg.s)
            sat == Satisfying(Handler.versions, ref.name, ref.range)
        IN  (obj.name # Handler.pkg.name /\ obj.version = "") =>
                IF SemverValidRange(ref.range) /\ sat # {}
                THEN /\ last.ok
                     /\ \E v \in sat :
                            /\ IsMaxOf(v, sat)
                            /\ Contains(last.val, "entry:\"" \o ref.name \o "@" \o v)
                ELSE ~last.ok

\* the entry a facade output registers: the text between the last
\* 'entry:"' and the closing of the script
EntryOf(out) ==
    LET open == "entry:\""
        i    == LastIndexOf(out, open)
    IN  SubSeq(out, i + Len(open), Len(out) - Len("\"});</script>"))

RelativeTitle(t) == t \in {".", ".."} \/ StartsWith(t, "./") \/ StartsWith(t, "../")

Segments(p) == NormalizeSegs(Split(p, "/"), <<>>, FALSE)

\* the segments of dir/title below the project root, when dir/title lies
\* in the project
InProject(self, title) ==
    LET target == Segments(self.dir \o "/" \o title)
        home   == Segments(self.cwd)
    IN  Len(home) <= Len(target) /\ SubSeq(target, 1, Len(home)) = home

BelowProject(self, title) ==
    LET target == Segments(self.dir \o "/" \o title)
    IN  JoinSeq(SubSeq(target, Len(Segments(self.cwd)) + 1, Len(target)), "/")

PathEscapesProject == "You should never link to a resource outside current project."

\* C7: with a hybrid link root, href of a relative title fails with
\* PathEscapesProject exactly when the title, resolved against the
\* template's directory, leaves the project root (its project-relative form
\* is '..' or starts with a '..' segment); otherwise it returns link root,
\* project name and project-relative path joined by '/'.
C7_HrefRejectsExactlyEscapes ==
    (HelperCall("href") /\ Handler.href_root # "" /\ RelativeTitle(last.arg.s)) =>
        IF InProject(Handler, last.arg.s)
        THEN /\ last.ok
             /\ last.val = Handler.href_root \o "/" \o Handler.pkg.name \o "/"
                           \o BelowProject(Handler, last.arg.s)
        ELSE ~last.ok /\ last.val = PathEscapesProject

\* href has rejected a title that climbs out through the template directory
C7_Witness ==
    /\ HelperCall("href") /\ ~last.ok
    /\ last.arg.s = "../template/../../b.html"
    /\ last.val = PathEscapesProject

\* a combo entry whose sub-path climbs above the root it is resolved in
EntryEscapes(entry) ==
    IF StartsWith(entry, ".") THEN IsParentPath(PathNormalize(entry))
    ELSE LET sub == PkgParse(entry).path
         IN  sub # "" /\ IsParentPath(PathNormalize(Drop(sub, 1)))

\* C8: combo fails, producing no URL, whenever one of its entries carries a
\* sub-path that resolves outside the project root.
C8_ComboRejectsEscapes ==
    HelperCall("combo") =>
        LET entries == SelectSeq(Split(last.arg.s, ","), LAMBDA m : m # "")
        IN  (\E i \in 1..Len(entries) : EntryEscapes(entries[i])) => ~last.ok

\* C9: the hash rewriter returns its input when hashing is disabled or the
\* path has no manifest entry; otherwise the input with _<hash> inserted
\* right before the final extension and every other character kept.
C9_HashInsertedBeforeExtension ==
    HelperCall("_append_md5_to_absolute_path") =>
        LET path == last.arg.s
            hash == FileHashOf(Handler.file_hash, path)
            ext  == PathExtname(path)
        IN  IF ~Handler.enable_md5 \/ hash = "" THEN last.val = path
            ELSE last.val = Take(path, Len(path) - Len(ext)) \o "_" \o hash \o ext

\* a host with the first digit of its first label replaced by the placeholder
PlaceholderHost(host) ==
    LET dot   == IndexOf(host, ".")
        label == IF dot = 0 THEN host ELSE Take(host, dot - 1)
    IN  ReplaceFirstDigit(label, "{n}") \o Drop(host, Len(label))

\* C10: with hosts configured, the loader-config path of the bootstrap is
\* '//' + host + absolutePath, the host being hosts[0] untouched when the
\* hash_host option is false, and hosts[absolutePath.length mod size] with
\* the placeholder when it is true.
C10_ConfigPathFollowsHashHostOption ==
    (HelperCall("facade") /\ last.ok /\ Handler.facade_counter = 1
        /\ Handler.hosts # <<>>) =>
        LET abs   == ToAbsolutePath(Handler, root, Handler.relative_cwd)
            hosts == Handler.hosts
            host  == IF Handler.hash_host
                     THEN PlaceholderHost(hosts[(Len(abs) % Len(hosts)) + 1])
                     ELSE hosts[1]
        IN  Contains(last.val, "\"path\":\"//" \o host \o abs \o "\"")

\* C11: every invocation of a compiled template emits the bootstrap block
\* exactly once, on the first facade directive of that invocation, also when
\* the same Compiler has served earlier invocations.
C11_BootstrapOncePerInvocation ==
    (HelperCall("facade") /\ last.ok /\ run.owner = last.owner) =>
        /\ (run.facades = 1 => HasBootstrap(last.val))
        /\ (run.facades > 1 => NoBootstrap(last.val))

\* the nodes a node's dependencies lead to
DepsOf(g, i) == {g.nodes[i].deps[k][2] : k \in 1..Len(g.nodes[i].deps)}

RECURSIVE ReachableFrom(_, _)
\* the nodes reachable from those of S, S included
ReachableFrom(g, S) ==
    LET Grown(T) == IF T = S THEN S ELSE ReachableFrom(g, T)
    IN  Grown(S \cup UNION {DepsOf(g, i) : i \in S})

\* the nodes of the graph: those the project's node leads to
NodesOf(g) == ReachableFrom(g, {g.root})

\* a dependency node of the graph is reachable from itself
HasCycle(g) == \E i \in NodesOf(g) : i \in ReachableFrom(g, DepsOf(g, i))

\* the <<name, version>> pairs occurring in the graph
OccurringIn(g) ==
    {<<g.name, g.nodes[g.root].version>>}
    \cup UNION {{<<g.nodes[i].deps[k][1], g.nodes[g.nodes[i].deps[k][2]].version>> :
                    k \in 1..Len(g.nodes[i].deps)} : i \in NodesOf(g)}

\* the index lists, for each name, exactly the versions occurring with it
ExactIndex(g, index) ==
    /\ DOMAIN index = {p[1] : p \in OccurringIn(g)}
    /\ \A n \in DOMAIN index :
           /\ {index[n][k] : k \in 1..Len(index[n])} = {p[2] : p \in {q \in OccurringIn(g) : q[1] = n}}
           /\ \A j, k \in 1..Len(index[n]) : index[n][j] = index[n][k] => j = k

\* C12: building the version index terminates for every lock graph, one
\* with a dependency node reachable from itself included, and the index it
\* returns maps each name to exactly the distinct versions occurring with
\* that name in the graph.
C12_VersionIndexTerminatesExact ==
    /\ dig.status # "overflow"
    /\ dig.status = "done" => ExactIndex(dig.shrinkwrap, dig.versions_cache)

====
